---- MODULE Spec2Model ----
(***************************************************************************)
(* A model of the attendance service of src/app.py: the Flask handlers     *)
(* mark_attendance, get_recent_attendance, serve_image and home, the       *)
(* attendance table, the image directory and the server's calendar.        *)
(*                                                                         *)
(* Strings are sequences: a base64 text is a sequence of characters        *)
(* (0..63 the alphabet, 64 the pad "=", 65 any other character), a byte    *)
(* string a sequence of 0..255, a timestamp or date a sequence of decimal  *)
(* digits, a path a sequence of segments.                                  *)
(***************************************************************************)
EXTENDS Naturals, Sequences, FiniteSets, TLC

VARIABLES
    clock,   \* the server's calendar day (date.today(), datetime.utcnow())
    table,   \* the rows of the attendance table, in insertion (rowid) order
    files,   \* the file system: path -> bytes
    req,     \* the mark_attendance requests in flight, one per worker slot
    last     \* what the last step sent to a client

vars == <<clock, table, files, req, last>>

\* ------------------------------------------------------------ bounds
MaxDay == 1        \* the calendar runs over days 0..MaxDay
MaxFiles == 2      \* image files written in one behaviour
MaxRows == 11      \* rows of a table drawn by InitList

Slots == {1, 2}    \* concurrent workers handling mark_attendance

\* ------------------------------------------------------------ JSON values
Absent == [t |-> "absent", v |-> <<>>]     \* key not in the object: data.get -> default
Null == [t |-> "null", v |-> <<>>]         \* JSON null: Python None
Str(s) == [t |-> "str", v |-> s]           \* JSON string
List(s) == [t |-> "list", v |-> s]         \* JSON array

\* Python truthiness of data.get(key): None, "" and [] are false.
Truthy(j) == j.t \in {"str", "list"} /\ j.v # <<>>

\* ------------------------------------------------------------ base64
PAD == 64
LIMIT == 10
NAME == "Unknown Person"

\* base64.b64decode(s) with validate=False (binascii.a2b_base64): characters
\* outside the alphabet are discarded, a pad sequence that completes a quad
\* ends the input, leftover characters of an unfinished quad raise
\* binascii.Error.
RECURSIVE a2b_base64(_, _, _, _, _, _)
a2b_base64(s, i, quad, pads, left, out) ==
    IF i > Len(s)
    THEN IF quad = 0 THEN [ok |-> TRUE, bytes |-> out]
                     ELSE [ok |-> FALSE, bytes |-> <<>>]
    ELSE LET c == s[i] IN
         IF c = PAD
         THEN IF quad >= 2 /\ quad + pads + 1 >= 4
              THEN [ok |-> TRUE, bytes |-> out]
              ELSE a2b_base64(s, i + 1, quad,
                              IF quad >= 2 THEN pads + 1 ELSE pads, left, out)
         ELSE IF c > PAD
         THEN a2b_base64(s, i + 1, quad, pads, left, out)
         ELSE CASE quad = 0 -> a2b_base64(s, i + 1, 1, 0, c, out)
                [] quad = 1 -> a2b_base64(s, i + 1, 2, 0, c % 16,
                                          Append(out, left * 4 + c \div 16))
                [] quad = 2 -> a2b_base64(s, i + 1, 3, 0, c % 4,
                                          Append(out, left * 16 + c \div 4))
                [] OTHER    -> a2b_base64(s, i + 1, 0, 0, 0,
                                          Append(out, left * 64 + c))

\* b64decode of a JSON value: a non-string raises TypeError.
b64decode(j) ==
    IF j.t # "str" THEN [ok |-> FALSE, bytes |-> <<>>]
    ELSE a2b_base64(j.v, 1, 0, 0, 0, <<>>)

\* The client's encoding of three bytes (used to build the sample payloads).
b64encode3(b) ==
    << b[1] \div 4, (b[1] % 4) * 16 + b[2] \div 16,
       (b[2] % 16) * 4 + b[3] \div 64, b[3] % 64 >>

\* ------------------------------------------------------------ collaborators
\* cv2.imdecode, face_recognition.face_locations and is_live_bytes are external
\* classifiers of byte strings.  The model fixes one classification of the
\* sample images: byte 1 = 255 marks a decodable image, byte 2 is the number of
\* faces in it, byte 3 = 1 marks a live subject.
imdecode(bytes) == Len(bytes) >= 3 /\ bytes[1] = 255
face_locations(bytes) == bytes[2]
LiveAnswer(bytes) == Len(bytes) >= 3 /\ bytes[3] = 1

\* a liveness check that passes every image
is_live_bytes_always(bytes) == TRUE

\* lines 10-15: is_live_bytes is live_detection's classifier or, when that
\* module cannot be imported, a fallback that answers True for every image.
\* Either way it is a function of the bytes; LiveAnswer is its answer (with
\* the fallback no sample would have a third byte other than 1).
is_live_bytes(bytes) == LiveAnswer(bytes)

\* has_face with an undecodable image (img is None) taken for a face
has_face_none(bytes) ==
    IF bytes = <<>> THEN {"raise", "false"}
    ELSE IF ~imdecode(bytes) THEN {"true"}
    ELSE {IF face_locations(bytes) > 0 THEN "true" ELSE "false"}

\* has_face(image_bytes): the outcomes "raise", "true", "false".  cv2.imdecode
\* of an empty buffer raises cv2.error in OpenCV 4 and returns None in OpenCV
\* 3: both outcomes are kept.
has_face(bytes) ==
    IF bytes = <<>> THEN {"raise", "false"}
    ELSE IF ~imdecode(bytes) THEN {"false"}
    ELSE {IF face_locations(bytes) > 0 THEN "true" ELSE "false"}

\* ------------------------------------------------------------ sample inputs
Live1 == <<255, 1, 1>>        \* one face, live
Live2 == <<255, 2, 1>>        \* two faces, live
Spoof == <<255, 1, 0>>        \* one face, not live
NoFaceLive == <<255, 0, 1>>   \* an image without a face (liveness would pass)
NoFaceSpoof == <<255, 0, 0>>  \* an image without a face (liveness would fail)
NotImage == <<7, 1, 1>>       \* bytes cv2.imdecode cannot decode

BadImages ==
    { Absent, Str(<<>>),
      Str(<<1, 2, 3>>),            \* three characters: "Incorrect padding"
      Str(<<PAD>>),                \* "=": decodes to the empty byte string
      Str(b64encode3(Spoof)), Str(b64encode3(NoFaceLive)),
      Str(b64encode3(NoFaceSpoof)), Str(b64encode3(NotImage)) }

NullBody == [json |-> "null", image_base64 |-> Absent, timestamp |-> Absent]
Object(i, t) == [json |-> "object", image_base64 |-> i, timestamp |-> t]
\* live faces: with the server's timestamp, with a client's, with a timestamp
\* that is a JSON array; 65 is a character outside the base64 alphabet
GoodBodies ==
    { Object(Str(b64encode3(Live1)), Absent),
      Object(Str(<<65>> \o b64encode3(Live2)), Str(<<0, 0, 9>>)),
      Object(Str(b64encode3(Live1)), List(<<1>>)) }
Bodies ==
    {NullBody} \cup { Object(i, Absent) : i \in BadImages } \cup GoodBodies

\* ------------------------------------------------------------ clock, names
\* date.today().isoformat() and datetime.utcnow().isoformat(): fixed-width
\* decimal strings, so that later instants are greater strings.
isoformat(day) == << day \div 10, day % 10 >>

\* uuid.uuid4().hex: a value never drawn before.  File names and row ids are
\* never compared with each other, so each is numbered in its own series: the
\* draw after n names (ids) is n + 1.
uuid4(n) == n + 1

Seg(text, hex) == [text |-> text, hex |-> hex]
IMAGE_DIR == << Seg("attendance_images", 0) >>
DotDot == Seg("..", 0)

\* f"{uuid.uuid4().hex}.jpg"
Filename(u) == << Seg(".jpg", u) >>
\* os.path.join(a, b) of two relative paths
os_path_join(a, b) == a \o b
\* an absolute URL path "/" + p
Url(p) == [root |-> "/", segs |-> p]


\* ------------------------------------------------------------ the store
\* sqlite3 binding of the timestamp parameter: None is stored as NULL, a
\* string as TEXT, a list raises ProgrammingError/InterfaceError.
Bindable(j) == j.t \in {"null", "str"}

\* whether the table holds a row of that name and date
HasRow(tbl, name, date) ==
    \E i \in 1..Len(tbl) : tbl[i].name = name /\ tbl[i].date = date

\* already_marked_today(name): COUNT(*) WHERE name=? AND date=? is > 0
already_marked_today_twice(tbl, name, today) ==
    Cardinality({ i \in 1..Len(tbl) : tbl[i].name = name /\ tbl[i].date = today }) > 1

already_marked_today(tbl, name, today) ==
    Cardinality({ i \in 1..Len(tbl) : tbl[i].name = name /\ tbl[i].date = today }) > 0

\* SQLite's comparison of stored timestamps: NULL sorts below every text,
\* text compares bytewise (memcmp, the shorter of two equal prefixes first).
RECURSIVE LexLess(_, _)
LexLess(s, t) ==
    IF t = <<>> THEN FALSE
    ELSE IF s = <<>> THEN TRUE
    ELSE IF Head(s) # Head(t) THEN Head(s) < Head(t)
    ELSE LexLess(Tail(s), Tail(t))

TsLess(a, b) ==
    IF b.t = "null" THEN FALSE
    ELSE IF a.t = "null" THEN TRUE
    ELSE LexLess(a.v, b.v)

\* ORDER BY timestamp DESC: SQL leaves the order of equal keys open; tieAsc
\* says whether equal timestamps come out in rowid order or in its reverse.
RECURSIVE InsertDesc(_, _, _)
InsertDesc(sorted, row, tieAsc) ==
    IF sorted = <<>> THEN << row >>
    ELSE LET h == Head(sorted) IN
         IF TsLess(h.timestamp, row.timestamp)
            \/ (~tieAsc /\ h.timestamp = row.timestamp)
         THEN << row >> \o sorted
         ELSE << h >> \o InsertDesc(Tail(sorted), row, tieAsc)

RECURSIVE OrderByTimestampDesc(_, _)
OrderByTimestampDesc(rows, tieAsc) ==
    IF rows = <<>> THEN <<>>
    ELSE InsertDesc(OrderByTimestampDesc(SubSeq(rows, 1, Len(rows) - 1), tieAsc),
                    rows[Len(rows)], tieAsc)

Min(a, b) == IF a < b THEN a ELSE b

\* SELECT name, timestamp, image_path ... ORDER BY timestamp DESC LIMIT 10
SelectRecentAsc(tbl, tieAsc) ==
    LET s == OrderByTimestampDesc(tbl, tieAsc)
    IN  SubSeq(s, Len(s) - Min(LIMIT, Len(s)) + 1, Len(s))

SelectRecent(tbl, tieAsc) ==
    LET s == OrderByTimestampDesc(tbl, tieAsc)
    IN  SubSeq(s, 1, Min(LIMIT, Len(s)))

\* f"/{r[2]}"
RecentUrlBare(image_path) == Url(Tail(image_path))

RecentUrl(image_path) == Url(image_path)

\* the list get_recent_attendance returns
RecentResult(tbl, tieAsc) ==
    LET rows == SelectRecent(tbl, tieAsc)
    IN  [ i \in 1..Len(rows) |->
            [ person_text |-> rows[i].name,
              timestamp   |-> rows[i].timestamp,
              image_path  |-> RecentUrl(rows[i].image_path) ] ]

\* f"/attendance_images/{filename}"
ResponseUrl(filename) == Url(<< Seg("attendance_images", 0) >> \o filename)

\* the path the image is written to: os.path.join(IMAGE_DIR, filename)
ImagePath(filename) == os_path_join(IMAGE_DIR, filename)

\* send_from_directory(directory, filename): werkzeug's safe_join refuses a
\* path that climbs out of the directory, a path that names no file is 404.
send_from_directory(fs, directory, filename) ==
    LET p == os_path_join(directory, filename)
    IN  IF \E i \in 1..Len(filename) : filename[i] = DotDot
        THEN [status |-> 404, bytes |-> <<>>]
        ELSE IF p \in DOMAIN fs THEN [status |-> 200, bytes |-> fs[p]]
        ELSE [status |-> 404, bytes |-> <<>>]

\* Routing of GET url to "/attendance_images/<path:filename>" and serve_image.
Fetch(fs, url) ==
    IF Len(url.segs) >= 2 /\ url.segs[1] = Seg("attendance_images", 0)
    THEN send_from_directory(fs, IMAGE_DIR, Tail(url.segs))
    ELSE [status |-> 404, bytes |-> <<>>]

\* ------------------------------------------------------------ requests
\* A worker slot: the position and the locals of the mark_attendance request it
\* handles (pc "idle": none).  ran, wrote, inserted and marked0 are bookkeeping
\* of the run, read by the properties only: the steps taken, the files and rows
\* written, and whether the table held a row of the placeholder name dated
\* `today` when line 87 read the clock.
NoUrl == Url(<<>>)
Idle ==
    [ pc |-> "idle", body |-> NullBody, timestamp |-> Absent,
      image_bytes |-> <<>>, today |-> <<>>, gate_today |-> <<>>,
      filename |-> <<>>, image_path |-> <<>>, status |-> 0, error |-> "",
      resp_timestamp |-> Absent, resp_url |-> NoUrl, resp_name |-> "",
      ran |-> {}, wrote |-> 0, inserted |-> 0, marked0 |-> FALSE ]

\* return jsonify({"ok": False, "error": error}), status
Respond(slot, status, error) ==
    [ slot EXCEPT !.pc = "done", !.status = status, !.error = error ]

\* return jsonify({"ok": True, "timestamp": ..., "image_path": ..., "name": ...})
RespondOk(slot) ==
    [ slot EXCEPT !.pc = "done", !.status = 200,
                  !.resp_timestamp = slot.timestamp,
                  !.resp_url = ResponseUrl(slot.filename),
                  !.resp_name = NAME ]

InFlight(r) == req[r].pc # "idle"

\* `last` is what the last step sent to a client: nothing, the response of a
\* mark_attendance (with the slot that produced it), or that of a read.
NoLast == [op |-> "none", status |-> 0, rows |-> <<>>, bytes |-> <<>>, slot |-> Idle]
MarkResponse(s) ==
    [op |-> "mark_attendance", status |-> s.status, rows |-> <<>>, bytes |-> <<>>,
     slot |-> s]

\* the slot and the response after a step of the handler that leaves it in `out`
Continue(r, out) ==
    IF out.pc = "done"
    THEN req' = [ req EXCEPT ![r] = Idle ] /\ last' = MarkResponse(out)
    ELSE req' = [ req EXCEPT ![r] = out ] /\ last' = NoLast

Init ==
    /\ clock = 0
    /\ table = <<>>
    /\ files = << >>
    /\ req = [ r \in Slots |-> Idle ]
    /\ last = NoLast

\* mark_attendance, lines 73-85, for a request that passed validation: decode
\* the base64 text, Step 1 (has_face), Step 2 (liveness), Step 3 (the name).
\* The set of slots the handler can be in afterwards.
Checks(s) ==
    LET d == b64decode(s.body.image_base64)
        s1 == [ s EXCEPT !.ran = @ \cup {"face"} ]
        s2 == [ s1 EXCEPT !.ran = @ \cup {"liveness"} ]
    IN  IF ~d.ok THEN { Respond(s, 500, "b64decode") }
        ELSE { CASE f = "raise" -> Respond(s1, 500, "cv2.error")
                 [] f = "false" -> Respond(s1, 403, "No face detected")
                 [] OTHER ->
                      IF ~is_live_bytes(d.bytes)
                      THEN Respond(s2, 403, "Spoof detected")
                      ELSE [ s2 EXCEPT !.pc = "today", !.image_bytes = d.bytes ]
               : f \in has_face(d.bytes) }

\* mark_attendance, lines 66-71: read the body, default the timestamp, reject
\* a missing image.  A JSON null body makes data.get raise AttributeError
\* outside the try block: an unhandled 500.
Validate(body, now) ==
    LET fresh == [ Idle EXCEPT !.body = body ]
        ts == IF body.timestamp.t = "absent" THEN Str(isoformat(now))
              ELSE body.timestamp
    IN  IF body.json = "null"
        THEN { Respond(fresh, 500, "AttributeError") }
        ELSE IF ~Truthy(body.image_base64)
        THEN { Respond([ fresh EXCEPT !.ran = {"validate"} ], 400, "No image received") }
        ELSE Checks([ fresh EXCEPT !.timestamp = ts, !.ran = {"validate"} ])

\* mark_attendance, lines 66-85.  These lines touch nothing but the request's
\* own data (and the clock, once), so they are one step.
Receive(r, body) ==
    /\ ~InFlight(r)
    /\ \A q \in Slots : q < r => InFlight(q)   \* the first free worker takes it
    /\ Cardinality(DOMAIN files) + Cardinality({ q \in Slots : InFlight(q) }) < MaxFiles
    /\ \E out \in Validate(body, clock) : Continue(r, out)
    /\ UNCHANGED <<clock, table, files>>

\* line 87: today = date.today().isoformat()
ReadToday(r) ==
    /\ req[r].pc = "today"
    /\ Continue(r, [ req[r] EXCEPT !.pc = "gate_clock", !.today = isoformat(clock),
                       !.marked0 = HasRow(table, NAME, isoformat(clock)) ])
    /\ UNCHANGED <<clock, table, files>>

\* already_marked_today, line 54: its own reading of the clock
GateClock(r) ==
    /\ req[r].pc = "gate_clock"
    /\ Continue(r, [ req[r] EXCEPT !.pc = "gate_query", !.gate_today = isoformat(clock) ])
    /\ UNCHANGED <<clock, table, files>>

\* already_marked_today, lines 55-60, and lines 90-91: Step 4, the duplicate gate
GateQuery(r) ==
    /\ req[r].pc = "gate_query"
    /\ LET s == [ req[r] EXCEPT !.ran = @ \cup {"gate"} ]
       IN  Continue(r, IF already_marked_today(table, NAME, req[r].gate_today)
                       THEN Respond(s, 409, "Attendance already marked for today")
                       ELSE [ s EXCEPT !.pc = "write" ])
    /\ UNCHANGED <<clock, table, files>>

\* open(path, "wb").write(bytes): the file is created or replaced
Written(fs, path, bytes) ==
    [ p \in DOMAIN fs \cup {path} |-> IF p = path THEN bytes ELSE fs[p] ]

\* lines 94-97 with the file opened under its bare name, not in IMAGE_DIR
WriteFileToCwd(r) ==
    /\ req[r].pc = "write"
    /\ LET filename == Filename(uuid4(Cardinality(DOMAIN files)))
           path == ImagePath(filename)
       IN  /\ files' = Written(files, filename, req[r].image_bytes)
           /\ Continue(r, [ req[r] EXCEPT !.pc = "insert", !.filename = filename,
                                          !.image_path = path,
                                          !.ran = @ \cup {"write"}, !.wrote = @ + 1 ])
    /\ UNCHANGED <<clock, table>>

\* lines 94-97 with one fixed file name instead of a fresh uuid
WriteFileFixedName(r) ==
    /\ req[r].pc = "write"
    /\ LET filename == Filename(1)
           path == ImagePath(filename)
       IN  /\ files' = Written(files, path, req[r].image_bytes)
           /\ Continue(r, [ req[r] EXCEPT !.pc = "insert", !.filename = filename,
                                          !.image_path = path,
                                          !.ran = @ \cup {"write"}, !.wrote = @ + 1 ])
    /\ UNCHANGED <<clock, table>>

\* lines 94-97: Step 5, the image file
WriteFile(r) ==
    /\ req[r].pc = "write"
    /\ LET filename == Filename(uuid4(Cardinality(DOMAIN files)))
           path == ImagePath(filename)
       IN  /\ files' = Written(files, path, req[r].image_bytes)
           /\ Continue(r, [ req[r] EXCEPT !.pc = "insert", !.filename = filename,
                                          !.image_path = path,
                                          !.ran = @ \cup {"write"}, !.wrote = @ + 1 ])
    /\ UNCHANGED <<clock, table>>

\* lines 99-111: the row and the response; a timestamp sqlite3 cannot bind
\* raises, and the handler answers 500 (lines 113-114).
InsertRow(r) ==
    /\ req[r].pc = "insert"
    /\ LET s == [ req[r] EXCEPT !.ran = @ \cup {"insert"} ]
           row == [ id |-> uuid4(Len(table)), name |-> NAME,
                    timestamp |-> req[r].timestamp, date |-> req[r].today,
                    image_path |-> req[r].image_path ]
       IN  IF ~Bindable(req[r].timestamp)
           THEN /\ table' = table
                /\ Continue(r, Respond(s, 500, "sqlite3 binding"))
           ELSE /\ table' = Append(table, row)
                /\ Continue(r, RespondOk([ s EXCEPT !.inserted = @ + 1 ]))
    /\ UNCHANGED <<clock, files>>

\* get_recent_attendance, lines 118-129
get_recent_attendance ==
    /\ \E tieAsc \in BOOLEAN :
         last' = [ op |-> "recent", status |-> 200,
                   rows |-> RecentResult(table, tieAsc), bytes |-> <<>>, slot |-> Idle ]
    /\ UNCHANGED <<clock, table, files, req>>

\* the URL paths a client asks for: the ones responses gave out, a file
\* name never stored, and a path climbing out of the image directory
KnownUrls ==
    { Url(p) : p \in DOMAIN files } \cup
    { ResponseUrl(Filename(0)), ResponseUrl(<< DotDot, Seg("attendance.db", 0) >>) }

\* serve_image, lines 132-134
serve_image(url) ==
    /\ LET f == Fetch(files, url)
       IN  last' = [ op |-> "image", status |-> f.status, rows |-> <<>>,
                     bytes |-> f.bytes, slot |-> Idle ]
    /\ UNCHANGED <<clock, table, files, req>>

\* home, lines 137-139
home ==
    /\ last' = [ op |-> "home", status |-> 200, rows |-> <<>>, bytes |-> <<>>,
                  slot |-> Idle ]
    /\ UNCHANGED <<clock, table, files, req>>

\* midnight
Tick ==
    /\ clock < MaxDay
    /\ clock' = clock + 1
    /\ last' = NoLast
    /\ UNCHANGED <<table, files, req>>

Steps(r) ==
    \/ ReadToday(r)
    \/ GateClock(r)
    \/ GateQuery(r)
    \/ WriteFile(r)
    \/ InsertRow(r)

\* A read answers the state the last write step left; a read straight after
\* another read would reach no state that the first does not reach.
Reads ==
    /\ last.op \in {"none", "mark_attendance"}
    /\ \/ get_recent_attendance
       \/ \E u \in KnownUrls : serve_image(u)
       \/ home

\* Requests arrive at any time and their steps interleave.
Next ==
    \/ \E r \in Slots, b \in Bodies : Receive(r, b)
    \/ \E r \in Slots : Steps(r)
    \/ Reads
    \/ Tick

Spec == Init /\ [][Next]_vars

\* One calendar day: the same, without midnight.
NextDay ==
    \/ \E r \in Slots, b \in Bodies : Receive(r, b)
    \/ \E r \in Slots : Steps(r)
    \/ Reads

SpecDay == Init /\ [][NextDay]_vars

\* Requests one after another: a request arrives only when none is in flight.
NextSeq ==
    \/ \E r \in Slots, b \in Bodies :
          (\A q \in Slots : ~InFlight(q)) /\ Receive(r, b)
    \/ \E r \in Slots : Steps(r)
    \/ Reads
    \/ Tick

SpecSeq == Init /\ [][NextSeq]_vars

\* get_recent_attendance over the tables of up to MaxRows rows: row i was
\* inserted on day i, with the i-th file name and the i-th id; its timestamp is one of two values, of a NULL and two texts of which
\* the longer is the smaller string ("10" < "9").
ListTimestamp(i, first) ==
    IF ~first THEN Str(<<9>>) ELSE IF i % 2 = 1 THEN Null ELSE Str(<<1, 0>>)
RowOf(i, ts) ==
    [ id |-> i, name |-> NAME, timestamp |-> ts, date |-> isoformat(i),
      image_path |-> ImagePath(Filename(i)) ]

InitList ==
    /\ \E n \in 0..MaxRows : \E f \in [ 1..n -> BOOLEAN ] :
         /\ table = [ i \in 1..n |-> RowOf(i, ListTimestamp(i, f[i])) ]
         /\ files = [ p \in { ImagePath(Filename(i)) : i \in 1..n } |-> Live1 ]
         /\ clock = n
    /\ req = [ r \in Slots |-> Idle ]
    /\ last = NoLast

NextList == get_recent_attendance

SpecList == InitList /\ [][NextList]_vars


\* ------------------------------------------------------------ properties
\* The response of a mark_attendance that the last step sent, and its request.
Marked == last.op = "mark_attendance"
Sent == last.slot
Decoded(body) == b64decode(body.image_base64)

\* C1: the attendance table never holds two rows with the same (name, date),
\* whatever the interleaving of the requests' steps.
C1_NoDuplicateRows ==
    \A i, j \in 1..Len(table) :
        i # j => ~(table[i].name = table[j].name /\ table[i].date = table[j].date)

\* A payload with a detectable face that passes liveness.
GoodPayload(body) ==
    /\ body.json = "object"
    /\ Truthy(body.image_base64)
    /\ Decoded(body).ok
    /\ Decoded(body).bytes # <<>>
    /\ imdecode(Decoded(body).bytes)
    /\ face_locations(Decoded(body).bytes) > 0
    /\ LiveAnswer(Decoded(body).bytes)

\* The first good request of a date succeeds and inserts its row, a later one
\* is refused with 409 and writes nothing.
FirstSucceedsLaterConflict ==
    IF Sent.marked0
    THEN /\ Sent.status = 409
         /\ Sent.error = "Attendance already marked for today"
         /\ Sent.wrote = 0 /\ Sent.inserted = 0
    ELSE /\ Sent.status = 200
         /\ Sent.wrote = 1 /\ Sent.inserted = 1
         /\ Len(table) >= 1
         /\ table[Len(table)].date = Sent.today
         /\ table[Len(table)].name = NAME

\* C2 as claimed: of requests handled one after another on one calendar date,
\* each with a payload that has a face and passes liveness, the first succeeds
\* and every later one answers 409 and inserts nothing.
C2_Claimed ==
    (Marked /\ GoodPayload(Sent.body) /\ Sent.today = Sent.gate_today)
        => FirstSucceedsLaterConflict

\* C2, amended: the same for the requests whose timestamp is absent, null or a
\* string (a value the store can bind).
C2_FirstThenConflict ==
    (Marked /\ GoodPayload(Sent.body) /\ Sent.today = Sent.gate_today
            /\ Sent.body.timestamp.t \in {"absent", "null", "str"})
        => FirstSucceedsLaterConflict

C2_Witness ==
    /\ Marked /\ GoodPayload(Sent.body) /\ Sent.today = Sent.gate_today
    /\ Sent.marked0 /\ Sent.status = 409
    /\ Len(table) = 1

\* C3 as claimed: a non-empty image_base64 that does not decode as an image is
\* answered 403 "No face detected", never 500.
C3_Claimed ==
    (Marked /\ Sent.body.json = "object" /\ Truthy(Sent.body.image_base64)
            /\ ~(Decoded(Sent.body).ok /\ imdecode(Decoded(Sent.body).bytes)))
        => (Sent.status = 403 /\ Sent.error = "No face detected")

\* C3, amended: a valid base64 text whose bytes are not empty and are not a
\* decodable image is answered 403 "No face detected".
C3_UndecodableImageIsNoFace ==
    (Marked /\ Sent.body.json = "object" /\ Truthy(Sent.body.image_base64)
            /\ Decoded(Sent.body).ok /\ Decoded(Sent.body).bytes # <<>>
            /\ ~imdecode(Decoded(Sent.body).bytes))
        => (Sent.status = 403 /\ Sent.error = "No face detected")

C3_Witness ==
    /\ Marked /\ Sent.body = Object(Str(b64encode3(NotImage)), Absent)
    /\ Sent.status = 403 /\ Sent.error = "No face detected"

\* C4: the first failing step decides the response, in the order validation,
\* face, liveness, duplicate gate, and no later step runs: no face is 403 "No
\* face detected" whatever liveness and the table say, a face that fails
\* liveness is 403 "Spoof detected" whether or not today is marked, and 409
\* is sent only to payloads that passed both checks.
C4_FirstFailingStepDecides ==
    (Marked /\ Sent.body.json = "object" /\ Truthy(Sent.body.image_base64)
            /\ Decoded(Sent.body).ok /\ Decoded(Sent.body).bytes # <<>>)
        => LET b == Decoded(Sent.body).bytes
               face == imdecode(b) /\ face_locations(b) > 0
               live == LiveAnswer(b)
           IN  /\ ~face => /\ Sent.status = 403 /\ Sent.error = "No face detected"
                           /\ Sent.ran = {"validate", "face"}
               /\ (face /\ ~live) =>
                           /\ Sent.status = 403 /\ Sent.error = "Spoof detected"
                           /\ Sent.ran = {"validate", "face", "liveness"}
               /\ Sent.status = 409 =>
                           /\ face /\ live
                           /\ Sent.ran = {"validate", "face", "liveness", "gate"}

C4_Witness ==
    /\ Marked /\ Sent.body = Object(Str(b64encode3(Spoof)), Absent)
    /\ Sent.status = 403 /\ Sent.error = "Spoof detected"
    /\ HasRow(table, NAME, isoformat(clock))

\* C5 as claimed: a request without an image (no JSON body, no image_base64,
\* or an empty one) is answered 400 before any check of the image.
C5_MissingImageIs400 ==
    (Marked /\ (Sent.body.json = "null" \/ ~Truthy(Sent.body.image_base64)))
        => (Sent.status = 400 /\ Sent.ran \subseteq {"validate"})

\* C6: every row's image_path names a file of the image store (a file may
\* have no row).
C6_RowsHaveFiles ==
    \A i \in 1..Len(table) : table[i].image_path \in DOMAIN files

C6_Witness ==
    /\ Len(table) >= 1
    /\ \E p \in DOMAIN files : \A i \in 1..Len(table) : table[i].image_path # p

\* C7: get_recent_attendance returns min(10, rows) entries, the rows of the
\* greatest timestamps, in non-increasing order of the stored timestamps.
C7_RecentIsTopTen ==
    last.op = "recent" =>
        LET res == last.rows
            paths == { table[i].image_path : i \in 1..Len(table) }
            got == { res[i].image_path.segs : i \in 1..Len(res) }
        IN  /\ Len(res) <= 10
            /\ Len(res) = Min(10, Len(table))
            /\ \A i \in 1..Len(res) : \E k \in 1..Len(table) :
                   /\ res[i].image_path.segs = table[k].image_path
                   /\ res[i].timestamp = table[k].timestamp
                   /\ res[i].person_text = table[k].name
            /\ Cardinality(got) = Len(res)
            /\ \A i \in 1..Len(res) - 1 : ~TsLess(res[i].timestamp, res[i + 1].timestamp)
            /\ \A k \in 1..Len(table) : table[k].image_path \notin got =>
                   \A i \in 1..Len(res) : ~TsLess(res[i].timestamp, table[k].timestamp)

C7_Witness ==
    /\ last.op = "recent" /\ Len(table) = 11 /\ Len(last.rows) = 10
    /\ last.rows[1].timestamp = Str(<<9>>)
    /\ last.rows[9].timestamp = Str(<<1, 0>>)
    /\ last.rows[10].timestamp = Null

\* Files are never removed or rewritten, rows never removed or changed.
StoreKept ==
    /\ \A p \in DOMAIN files : p \in DOMAIN files' /\ files'[p] = files[p]
    /\ Len(table') >= Len(table)
    /\ \A i \in 1..Len(table) : table'[i] = table[i]

\* C8: after a successful mark_attendance of bytes B, the URL the response
\* gave and the URL get_recent_attendance reports for the new row both fetch
\* exactly B, and no later step changes a stored file or row.
C8_RoundTrip ==
    /\ [] ( (Marked /\ Sent.status = 200) =>
              LET B == Decoded(Sent.body).bytes
              IN  /\ Fetch(files, Sent.resp_url) = [status |-> 200, bytes |-> B]
                  /\ \A tieAsc \in BOOLEAN :
                       LET rows == SelectRecent(table, tieAsc)
                           res == RecentResult(table, tieAsc)
                       IN  \A i \in 1..Len(rows) :
                             rows[i].id = table[Len(table)].id =>
                               Fetch(files, res[i].image_path)
                                   = [status |-> 200, bytes |-> B] )
    /\ [][StoreKept]_vars

C8_Witness ==
    /\ last.op = "image" /\ last.status = 200 /\ last.bytes = Live1
    /\ \E p \in DOMAIN files : files[p] = Live2
    /\ Len(table) = 2

\* C9 as claimed: a mark_attendance that does not succeed leaves the table and
\* the image store as they were.
C9_Claimed ==
    (Marked /\ Sent.status # 200) => (Sent.wrote = 0 /\ Sent.inserted = 0)

\* The steps of the read-only handlers and of midnight.
ReadOnlyStep == last'.op \in {"recent", "image", "home"} \/ clock' # clock

\* C9, amended: a response 400, 403 or 409 and every read leave the table and
\* the store unchanged, a success adds one row and one file, a 500 adds no row
\* and at most one file; rows and files are never changed or removed, a row is
\* added only by the step that answers 200 and a file only by a request's write.
C9_Frame ==
    /\ [] ( Marked =>
              /\ Sent.status \in {400, 403, 409} => (Sent.wrote = 0 /\ Sent.inserted = 0)
              /\ Sent.status = 200 => (Sent.wrote = 1 /\ Sent.inserted = 1)
              /\ Sent.status = 500 => (Sent.wrote <= 1 /\ Sent.inserted = 0) )
    /\ [][ /\ StoreKept
           /\ ReadOnlyStep => (table' = table /\ files' = files)
           /\ table' # table =>
                 /\ Len(table') = Len(table) + 1
                 /\ last'.op = "mark_attendance" /\ last'.status = 200
                 /\ last'.slot.inserted = 1
           /\ files' # files =>
                 /\ Cardinality(DOMAIN files') = Cardinality(DOMAIN files) + 1
                 /\ \E r \in Slots : /\ req[r].pc = "write"
                                     /\ req'[r].wrote = req[r].wrote + 1
                                     /\ req'[r].wrote = 1 ]_vars

C9_Witness ==
    /\ Marked /\ Sent.status = 500 /\ Sent.wrote = 1 /\ Sent.inserted = 0
    /\ Cardinality(DOMAIN files) > Len(table)

\* C10 as claimed: a request never inserts a row dated D while the table
\* already holds a row of the placeholder name dated D, even when the date
\* advances between the handler's two readings of the clock.
C10_NoInsertOverMarkedDate ==
    [][ \A r \in Slots :
          (req[r].pc = "insert" /\ Len(table') = Len(table) + 1)
              => ~HasRow(table, NAME, table'[Len(table')].date) ]_vars

====
